---- MODULE Spec2Model ----
(***************************************************************************)
(* A model of abc_parser_app.py: the tune-block segmenter, the field       *)
(* extractor, the book resolver, the importer with its SQLite store, and   *)
(* the pandas queries.  Text is a sequence of one-character strings.       *)
(***************************************************************************)
EXTENDS Naturals, Integers, Sequences, FiniteSets, TLC

VARIABLES
    content,      \* parse_abc_file: the decoded text of the file
    blocks,       \* parse_abc_file: TUNE_BLOCK_REGEX.findall(content)
    tunes,        \* parse_abc_file: the tune dicts built so far
    block,        \* parse_tune_block: its argument
    fields,       \* parse_tune_block: the dict it returns
    file_path,    \* get_book_number_from_path: its first argument
    base_dir,     \* get_book_number_from_path: its second argument
    book_result,  \* get_book_number_from_path: what the call gave
    corpus,       \* the files below the corpus root
    store,        \* the committed rows of the tunes table, in id order
    txn,          \* the rows inserted by the open transaction, not committed
    abc_files,    \* import_abc_books: the sorted paths
    fidx,         \* import_abc_books: how many files the outer loop has taken
    book,         \* import_abc_books: the book of the current file
    file_tunes,   \* import_abc_books: the tunes of the current file
    tidx,         \* import_abc_books: how many tunes the inner loop has taken
    total,        \* import_abc_books: the count
    returned,     \* what import_abc_books returned
    prior,        \* the committed rows when the run began
    failed_at,    \* where the run failed
    now,          \* the clock datetime.utcnow() reads
    runs,         \* how many import runs have begun
    df,           \* the DataFrame load_tunes_df gave: the rows in store order
    term,         \* the text given to search_tunes or get_tunes_by_type
    top_n,        \* top_composers: its top_n
    q_result,     \* what the query gave
    pc            \* the position of the running function

segVars == <<content, blocks, tunes>>
parseVars == <<block, fields>>
bookVars == <<file_path, base_dir, book_result>>
importVars == <<corpus, store, txn, abc_files, fidx, book, file_tunes, tidx,
                total, returned, prior, failed_at, now, runs>>
queryVars == <<df, term, top_n, q_result>>
vars == <<segVars, parseVars, bookVars, importVars, queryVars, pc>>

(***************************************************************************)
(* Bounds of the model.                                                    *)
(***************************************************************************)
MaxContentLen == 7
MaxBlockLen == 6
MaxNameLen == 2
MaxDepth == 2
MaxRuns == 2
MaxRows == 2
MaxTermLen == 2
MaxTop == 2

(***************************************************************************)
(* Python values.                                                          *)
(***************************************************************************)
\* None: no text is equal to it (texts hold one-character strings only).
None == <<"None">>

\* The tuples over S of length at most n.
SeqsUpTo(S, n) == UNION {[1..k -> S] : k \in 0..n}

\* str.isspace() of one character, for the characters the model draws.
IsSpace(c) == c \in {" ", "\n", "\t", "\r", "\f"}

\* str.upper() of one character, for the characters the model draws.
Upper(c) ==
    CASE c = "x" -> "X" [] c = "t" -> "T" [] c = "c" -> "C" [] c = "r" -> "R"
      [] c = "m" -> "M" [] c = "l" -> "L" [] c = "k" -> "K" [] c = "a" -> "A"
      [] c = "b" -> "B"
      [] OTHER -> c

\* str.strip(): the text without its leading and trailing whitespace.
Strip(s) ==
    LET keep == {i \in 1..Len(s) : ~IsSpace(s[i])}
    IN  IF keep = {} THEN <<>>
        ELSE LET lo == CHOOSE i \in keep : \A j \in keep : i <= j
                 hi == CHOOSE i \in keep : \A j \in keep : j <= i
             IN  SubSeq(s, lo, hi)

\* The line boundaries of str.splitlines(), for the characters the model
\* draws (a file read in text mode holds "\n" only).
IsLineBreak(c) == c \in {"\n", "\r", "\f"}

\* str.splitlines(): the lines of the text, split at each line break, with
\* no empty last line after a final line break and no line for the empty text.
RECURSIVE SplitlinesFrom(_, _, _)
SplitlinesFrom(s, start, i) ==
    IF i > Len(s)
    THEN IF start > Len(s) THEN <<>> ELSE <<SubSeq(s, start, Len(s))>>
    ELSE IF IsLineBreak(s[i])
         THEN <<SubSeq(s, start, i - 1)>> \o SplitlinesFrom(s, i + 1, i + 1)
         ELSE SplitlinesFrom(s, start, i + 1)

Splitlines(s) == SplitlinesFrom(s, 1, 1)

\* str.split(sep) for a one-character separator: empty pieces are kept, and
\* a text with n separators has n + 1 pieces.
RECURSIVE SplitFrom(_, _, _, _)
SplitFrom(s, sep, start, i) ==
    IF i > Len(s) THEN <<SubSeq(s, start, Len(s))>>
    ELSE IF s[i] = sep
         THEN <<SubSeq(s, start, i - 1)>> \o SplitFrom(s, sep, i + 1, i + 1)
         ELSE SplitFrom(s, sep, start, i + 1)

Split(s, sep) == SplitFrom(s, sep, 1, 1)

\* sep.join(parts)
RECURSIVE Join(_, _)
Join(sep, parts) ==
    IF parts = <<>> THEN <<>>
    ELSE IF Len(parts) = 1 THEN parts[1]
    ELSE parts[1] \o sep \o Join(sep, Tail(parts))

(***************************************************************************)
(* The Segmenter: TUNE_BLOCK_REGEX = (?m)^(X:.*?)(?=(?:\nX:)|\Z), DOTALL.  *)
(* Positions are 1-based; position Len(s)+1 is the end of the text.        *)
(***************************************************************************)
\* A faulty variant: ^ without (?m), the start of the text only.
LineStartNoMultiline(s, p) == p = 1
\* (?m)^ : the start of the text, or right after a newline.
LineStart(s, p) == p = 1 \/ s[p - 1] = "\n"

\* (?=(?:\nX:)|\Z) at position e: "\nX:" follows, or e is the end of the text.
Lookahead(s, e) ==
    \/ e = Len(s) + 1
    \/ e + 2 <= Len(s) /\ s[e] = "\n" /\ s[e + 1] = "X" /\ s[e + 2] = ":"

\* Whether the pattern matches starting at p: ^ then the literal X: .
MatchesAt(s, p) ==
    /\ LineStart(s, p)
    /\ p + 1 <= Len(s)
    /\ s[p] = "X"
    /\ s[p + 1] = ":"

\* .*? is lazy: the match ends at the first position where the lookahead holds.
MatchEnd(s, p) ==
    CHOOSE e \in (p + 2)..(Len(s) + 1) :
        Lookahead(s, e) /\ \A f \in (p + 2)..(e - 1) : ~Lookahead(s, f)

\* findall: scan from the left; after a match the scan resumes at its end.
RECURSIVE FindallFrom(_, _)
FindallFrom(s, p) ==
    IF p > Len(s) THEN <<>>
    ELSE IF MatchesAt(s, p)
         THEN <<SubSeq(s, p, MatchEnd(s, p) - 1)>> \o FindallFrom(s, MatchEnd(s, p))
         ELSE FindallFrom(s, p + 1)

TUNE_BLOCK_REGEX_findall(s) == FindallFrom(s, 1)

(***************************************************************************)
(* The Field Extractor: parse_tune_block.                                  *)
(***************************************************************************)
\* A faulty variant: the body kept as given, without strip().
EmptyFieldsUntrimmed(b) ==
    [x_number |-> None, titles |-> <<>>, composer |-> None, rhythm |-> None,
     meter |-> None, unit_length |-> None, key |-> None, tune_text |-> b]
\* Lines 63-72: the dict before any line is read.
EmptyFields(b) ==
    [x_number |-> None, titles |-> <<>>, composer |-> None, rhythm |-> None,
     meter |-> None, unit_length |-> None, key |-> None, tune_text |-> Strip(b)]

\* A faulty variant: the loop without its X branch.
ParseLineNoX(f, line) ==
    IF Len(line) >= 2 /\ line[2] = ":"
    THEN LET tag == Upper(line[1])
             value == Strip(SubSeq(line, 3, Len(line)))
         IN  CASE tag = "T" -> [f EXCEPT !.titles = Append(@, value)]
               [] tag = "C" -> [f EXCEPT !.composer = value]
               [] tag = "R" -> [f EXCEPT !.rhythm = value]
               [] tag = "M" -> [f EXCEPT !.meter = value]
               [] tag = "L" -> [f EXCEPT !.unit_length = value]
               [] tag = "K" -> [f EXCEPT !.key = value]
               [] OTHER -> f
    ELSE f
\* A faulty variant: a scalar field keeps its first value.
ParseLineFirstWins(f, line) ==
    IF Len(line) >= 2 /\ line[2] = ":"
    THEN LET tag == Upper(line[1])
             value == Strip(SubSeq(line, 3, Len(line)))
         IN  CASE tag = "X" /\ f.x_number = None -> [f EXCEPT !.x_number = value]
               [] tag = "T" /\ f.titles = <<>> -> [f EXCEPT !.titles = Append(@, value)]
               [] tag = "C" /\ f.composer = None -> [f EXCEPT !.composer = value]
               [] tag = "R" /\ f.rhythm = None -> [f EXCEPT !.rhythm = value]
               [] tag = "M" /\ f.meter = None -> [f EXCEPT !.meter = value]
               [] tag = "L" /\ f.unit_length = None -> [f EXCEPT !.unit_length = value]
               [] tag = "K" /\ f.key = None -> [f EXCEPT !.key = value]
               [] OTHER -> f
    ELSE f
\* One turn of the loop over the lines (lines 73-90).
ParseLine(f, line) ==
    IF Len(line) >= 2 /\ line[2] = ":"
    THEN LET tag == Upper(line[1])
             value == Strip(SubSeq(line, 3, Len(line)))
         IN  CASE tag = "X" -> [f EXCEPT !.x_number = value]
               [] tag = "T" -> [f EXCEPT !.titles = Append(@, value)]
               [] tag = "C" -> [f EXCEPT !.composer = value]
               [] tag = "R" -> [f EXCEPT !.rhythm = value]
               [] tag = "M" -> [f EXCEPT !.meter = value]
               [] tag = "L" -> [f EXCEPT !.unit_length = value]
               [] tag = "K" -> [f EXCEPT !.key = value]
               [] OTHER -> f
    ELSE f

RECURSIVE ParseLines(_, _, _)
ParseLines(f, lines, i) ==
    IF i > Len(lines) THEN f ELSE ParseLines(ParseLine(f, lines[i]), lines, i + 1)

\* A faulty variant: the titles joined with "/".
NormalizeTitleNoSpaces(titles) ==
    IF titles # <<>> THEN Join(<<"/">>, titles) ELSE None
\* Line 93: the title is the titles joined with " / ", or None without titles.
NormalizeTitle(titles) ==
    IF titles # <<>> THEN Join(<<" ", "/", " ">>, titles) ELSE None

parse_tune_block(b) ==
    LET lines == Splitlines(Strip(b))
        f == ParseLines(EmptyFields(b), lines, 1)
    IN  [x_number |-> f.x_number, titles |-> f.titles, composer |-> f.composer,
         rhythm |-> f.rhythm, meter |-> f.meter, unit_length |-> f.unit_length,
         key |-> f.key, tune_text |-> f.tune_text,
         title |-> NormalizeTitle(f.titles)]

\* Lines 103-108: one tune dict per block, in the order of the blocks.
parse_abc_file(text) ==
    LET bs == TUNE_BLOCK_REGEX_findall(text)
    IN  [i \in 1..Len(bs) |-> parse_tune_block(bs[i])]

(***************************************************************************)
(* The Book Resolver: get_book_number_from_path.  A path is a text with    *)
(* "/" between its segments; the paths of the model are normalised (no     *)
(* "." or ".." segment) and relative to one working directory.             *)
(***************************************************************************)
\* The decimal digits, and a character that str.isdigit() accepts and int()
\* refuses: "sup2" stands for the one character U+00B2, SUPERSCRIPT TWO.
DecimalDigits == {"0", "1", "2", "3", "4", "5", "6", "7", "8", "9"}
IsDigitChar(c) == c \in DecimalDigits \cup {"sup2"}

\* str.isdigit(): not empty, and every character is a digit.
IsDigit(s) == s # <<>> /\ \A i \in 1..Len(s) : IsDigitChar(s[i])

DigitValue(c) ==
    CASE c = "0" -> 0 [] c = "1" -> 1 [] c = "2" -> 2 [] c = "3" -> 3
      [] c = "4" -> 4 [] c = "5" -> 5 [] c = "6" -> 6 [] c = "7" -> 7
      [] c = "8" -> 8 [] c = "9" -> 9

\* The results of a call: None, an integer, or a raised ValueError.
BookNone == [tag |-> "None", n |-> 0]
BookInt(n) == [tag |-> "int", n |-> n]
RaisedValueError == [tag |-> "ValueError", n |-> 0]

\* int(s) for a text str.isdigit() accepted: the base-10 value when every
\* character is a decimal digit, ValueError otherwise.
RECURSIVE DecimalValue(_)
DecimalValue(s) ==
    IF s = <<>> THEN 0
    ELSE 10 * DecimalValue(SubSeq(s, 1, Len(s) - 1)) + DigitValue(s[Len(s)])

IntOf(s) ==
    IF \A i \in 1..Len(s) : s[i] \in DecimalDigits
    THEN BookInt(DecimalValue(s))
    ELSE RaisedValueError

\* The segments of a path as os.path.abspath leaves them: its pieces between
\* separators, without the empty ones and the "." ones.
Segments(path) == SelectSeq(Split(path, "/"), LAMBDA x : x # <<>> /\ x # <<".">>)

\* The length of the longest common prefix of two sequences.
RECURSIVE CommonPrefix(_, _)
CommonPrefix(a, b) ==
    IF a = <<>> \/ b = <<>> \/ a[1] # b[1] THEN 0
    ELSE 1 + CommonPrefix(Tail(a), Tail(b))

\* os.path.relpath(path, start): ".." for every segment of start after the
\* common prefix, then the rest of path; "." when nothing is left.
relpath(path, start) ==
    LET p == Segments(path)
        st == Segments(start)
        i == CommonPrefix(p, st)
        ups == [k \in 1..(Len(st) - i) |-> <<".", ".">>]
        rel == ups \o SubSeq(p, i + 1, Len(p))
    IN  IF rel = <<>> THEN <<".">> ELSE Join(<<"/">>, rel)

\* Lines 47-54.
get_book_number_from_path(fp, bd) ==
    LET rel == relpath(fp, bd)
        parts == Split(rel, "/")
    IN  IF Len(parts) >= 2 /\ IsDigit(parts[1])
        THEN IntOf(parts[1])
        ELSE BookNone

(***************************************************************************)
(* The Importer and the Store.                                             *)
(***************************************************************************)
\* The code point of a character, for the characters of the model's paths.
Ord(c) ==
    CASE c = "." -> 46 [] c = "/" -> 47 [] c = "1" -> 49 [] c = "2" -> 50
      [] c = "A" -> 65 [] c = "B" -> 66 [] c = "C" -> 67 [] c = "a" -> 97
      [] c = "b" -> 98 [] c = "c" -> 99 [] c = "t" -> 116 [] c = "x" -> 120
      [] c = "sup2" -> 178

\* str.lower() of one character, for the characters the model draws.
Lower(c) ==
    CASE c = "A" -> "a" [] c = "B" -> "b" [] c = "C" -> "c" [] c = "X" -> "x"
      [] c = "T" -> "t" [] c = "K" -> "k"
      [] OTHER -> c

LowerStr(s) == [i \in 1..Len(s) |-> Lower(s[i])]

\* str.endswith(suffix)
EndsWith(s, suffix) ==
    Len(s) >= Len(suffix) /\ SubSeq(s, Len(s) - Len(suffix) + 1, Len(s)) = suffix

\* The order of str: by the code points of the first characters that differ;
\* a proper prefix comes first.
StrLess(a, b) ==
    LET n == IF Len(a) < Len(b) THEN Len(a) ELSE Len(b)
        d == {i \in 1..n : a[i] # b[i]}
    IN  IF d = {} THEN Len(a) < Len(b)
        ELSE LET i == CHOOSE k \in d : \A j \in d : k <= j
             IN  Ord(a[i]) < Ord(b[i])

RECURSIVE Sorted(_)
\* A faulty variant: sorted(..., reverse=True).
SortedDescending(S) ==
    IF S = {} THEN <<>>
    ELSE LET m == CHOOSE x \in S : \A y \in S : x = y \/ StrLess(y, x)
         IN  <<m>> \o Sorted(S \ {m})
\* sorted() of a set of distinct texts.
Sorted(S) ==
    IF S = {} THEN <<>>
    ELSE LET m == CHOOSE x \in S : \A y \in S : x = y \/ StrLess(x, y)
         IN  <<m>> \o Sorted(S \ {m})

\* The corpus root (--base_dir): a directory named b.
BaseDir == <<"b">>

\* Line 38: os.path.join(root, f) for a file f of the directory root.
PathOf(f) == Join(<<"/">>, <<BaseDir>> \o f.dir \o <<f.name>>)

\* Line 37: f.lower().endswith('.abc')
IsAbcFile(name) == EndsWith(LowerStr(name), <<".", "a", "b", "c">>)

\* Lines 34-39: the paths of the .abc files of the tree, sorted.
find_abc_files(c) == Sorted({PathOf(f) : f \in {g \in c : IsAbcFile(g.name)}})

\* Lines 101-102: the text of the file at a path.
ReadFile(c, path) == (CHOOSE f \in c : PathOf(f) = path).text

\* Lines 147-165: the row insert_tune inserts; the id is the next rowid.
NewRow(tune, bk, path, id, date) ==
    [id |-> id, book |-> bk, file_path |-> path, x_number |-> tune.x_number,
     title |-> tune.title, composer |-> tune.composer, rhythm |-> tune.rhythm,
     meter |-> tune.meter, unit_length |-> tune.unit_length, key |-> tune.key,
     tune_text |-> tune.tune_text, date_added |-> date]

Running ==
    pc \in {"find", "file", "book", "parse", "tune", "execute", "commit",
            "count", "close"}

\* The locals of import_abc_books before a run.
NoLocals ==
    /\ abc_files = <<>>
    /\ fidx = 0
    /\ book = BookNone
    /\ file_tunes = <<>>
    /\ tidx = 0
    /\ total = 0

\* Menu choice 1: line 179, init_db, creates the table if it is missing and
\* changes no row.
ImportBegin ==
    /\ pc = "menu"
    /\ runs < MaxRuns
    /\ runs' = runs + 1
    /\ prior' = store
    /\ abc_files' = <<>>
    /\ fidx' = 0
    /\ book' = BookNone
    /\ file_tunes' = <<>>
    /\ tidx' = 0
    /\ total' = 0
    /\ failed_at' = "nowhere"
    /\ returned' = 0
    /\ pc' = "find"
    /\ UNCHANGED <<corpus, store, txn, now>>
    /\ UNCHANGED <<segVars, parseVars, bookVars, queryVars>>

\* Lines 180-181.
ImportFindFiles ==
    /\ pc = "find"
    /\ abc_files' = find_abc_files(corpus)
    /\ total' = 0
    /\ pc' = "file"
    /\ UNCHANGED <<corpus, store, txn, fidx, book, file_tunes, tidx, returned,
                   prior, failed_at, now, runs>>
    /\ UNCHANGED <<segVars, parseVars, bookVars, queryVars>>

\* Line 182: the next file, or the end of the loop.
ImportNextFile ==
    /\ pc = "file"
    /\ IF fidx < Len(abc_files)
       THEN fidx' = fidx + 1 /\ pc' = "book"
       ELSE fidx' = fidx /\ pc' = "close"
    /\ UNCHANGED <<corpus, store, txn, abc_files, book, file_tunes, tidx, total,
                   returned, prior, failed_at, now, runs>>
    /\ UNCHANGED <<segVars, parseVars, bookVars, queryVars>>

\* Line 183: the book of the file; a ValueError ends the run.
ImportResolveBook ==
    /\ pc = "book"
    /\ LET b == get_book_number_from_path(abc_files[fidx], BaseDir)
       IN  IF b.tag = "ValueError"
           THEN /\ pc' = "failed"
                /\ failed_at' = "book"
                /\ book' = book
           ELSE /\ pc' = "parse"
                /\ failed_at' = failed_at
                /\ book' = b
    /\ UNCHANGED <<corpus, store, txn, abc_files, fidx, file_tunes, tidx, total,
                   returned, prior, now, runs>>
    /\ UNCHANGED <<segVars, parseVars, bookVars, queryVars>>

\* Line 184.
ImportParseFile ==
    /\ pc = "parse"
    /\ file_tunes' = parse_abc_file(ReadFile(corpus, abc_files[fidx]))
    /\ tidx' = 0
    /\ pc' = "tune"
    /\ UNCHANGED <<corpus, store, txn, abc_files, fidx, book, total, returned,
                   prior, failed_at, now, runs>>
    /\ UNCHANGED <<segVars, parseVars, bookVars, queryVars>>

\* Line 185: the next tune of the file, or the next file.
ImportNextTune ==
    /\ pc = "tune"
    /\ IF tidx < Len(file_tunes)
       THEN tidx' = tidx + 1 /\ pc' = "execute"
       ELSE tidx' = tidx /\ pc' = "file"
    /\ UNCHANGED <<corpus, store, txn, abc_files, fidx, book, file_tunes, total,
                   returned, prior, failed_at, now, runs>>
    /\ UNCHANGED <<segVars, parseVars, bookVars, queryVars>>

\* Lines 147-166: the INSERT, in a transaction sqlite3 opens for it.  The
\* clock is read once, and has moved on at the next read.
InsertExecute ==
    /\ pc = "execute"
    /\ txn' = Append(txn, NewRow(file_tunes[tidx], book, abc_files[fidx],
                                 Len(store) + Len(txn) + 1, now))
    /\ now' = now + 1
    /\ pc' = "commit"
    /\ UNCHANGED <<corpus, store, abc_files, fidx, book, file_tunes, tidx, total,
                   returned, prior, failed_at, runs>>
    /\ UNCHANGED <<segVars, parseVars, bookVars, queryVars>>

\* A faulty variant: the commit leaves the store as it was.
InsertCommitNothing ==
    /\ pc = "commit"
    /\ pc' = "count"
    /\ UNCHANGED <<corpus, store, txn, abc_files, fidx, book, file_tunes, tidx,
                   total, returned, prior, failed_at, now, runs>>
    /\ UNCHANGED <<segVars, parseVars, bookVars, queryVars>>
\* Line 167: conn.commit() makes the inserted rows durable.
InsertCommit ==
    /\ pc = "commit"
    /\ store' = store \o txn
    /\ txn' = <<>>
    /\ pc' = "count"
    /\ UNCHANGED <<corpus, abc_files, fidx, book, file_tunes, tidx, total,
                   returned, prior, failed_at, now, runs>>
    /\ UNCHANGED <<segVars, parseVars, bookVars, queryVars>>

\* Lines 148 and 167: a storage error raises and nothing catches it, or the
\* process is killed; the open transaction is rolled back.
InsertFails ==
    /\ pc \in {"execute", "commit"}
    /\ txn' = <<>>
    /\ failed_at' = pc
    /\ pc' = "failed"
    /\ UNCHANGED <<corpus, store, abc_files, fidx, book, file_tunes, tidx, total,
                   returned, prior, now, runs>>
    /\ UNCHANGED <<segVars, parseVars, bookVars, queryVars>>

\* Line 187.
ImportCount ==
    /\ pc = "count"
    /\ total' = total + 1
    /\ pc' = "tune"
    /\ UNCHANGED <<corpus, store, txn, abc_files, fidx, book, file_tunes, tidx,
                   returned, prior, failed_at, now, runs>>
    /\ UNCHANGED <<segVars, parseVars, bookVars, queryVars>>

\* Lines 188-189: close() drops what is not committed; the count is returned.
ImportClose ==
    /\ pc = "close"
    /\ txn' = <<>>
    /\ returned' = total
    /\ pc' = "returned"
    /\ UNCHANGED <<corpus, store, abc_files, fidx, book, file_tunes, tidx, total,
                   prior, failed_at, now, runs>>
    /\ UNCHANGED <<segVars, parseVars, bookVars, queryVars>>

\* Lines 248-249: back in the menu.
ImportBackToMenu ==
    /\ pc = "returned"
    /\ pc' = "menu"
    /\ abc_files' = <<>>
    /\ fidx' = 0
    /\ book' = BookNone
    /\ file_tunes' = <<>>
    /\ tidx' = 0
    /\ total' = 0
    /\ UNCHANGED <<corpus, store, txn, returned, prior, failed_at, now, runs>>
    /\ UNCHANGED <<segVars, parseVars, bookVars, queryVars>>

\* The process is killed during a run, outside insert_tune: nothing is
\* uncommitted, and the store stays as it is.  A failed run ends the process.
Crash ==
    /\ Running
    /\ pc \notin {"execute", "commit"}
    /\ txn' = <<>>
    /\ failed_at' = pc
    /\ pc' = "failed"
    /\ UNCHANGED <<corpus, store, abc_files, fidx, book, file_tunes, tidx, total,
                   returned, prior, now, runs>>
    /\ UNCHANGED <<segVars, parseVars, bookVars, queryVars>>

(***************************************************************************)
(* The queries over the DataFrame.  A row of the model holds its id and    *)
(* the columns the queries read; the other columns go along unread.        *)
(***************************************************************************)
\* fillna(value) of one cell.
Fillna(cell, value) == IF cell = None THEN value ELSE cell

\* re.compile(pat) for the characters the model draws (letters, ".", "*"
\* and "("): a "(" is never closed, a "*" at the start has nothing to
\* repeat, and a "*" after a "*" is a multiple repeat.
RegexCompiles(pat) ==
    /\ \A i \in 1..Len(pat) : pat[i] # "("
    /\ pat = <<>> \/ pat[1] # "*"
    /\ \A i \in 1..(Len(pat) - 1) : ~(pat[i] = "*" /\ pat[i + 1] = "*")

\* The pattern as its items: a character or ".", repeated or not.
RECURSIVE RegexItems(_)
RegexItems(pat) ==
    IF pat = <<>> THEN <<>>
    ELSE IF Len(pat) >= 2 /\ pat[2] = "*"
         THEN <<[ch |-> pat[1], star |-> TRUE]>> \o RegexItems(SubSeq(pat, 3, Len(pat)))
         ELSE <<[ch |-> pat[1], star |-> FALSE]>> \o RegexItems(Tail(pat))

\* "." matches any character but a newline; a letter matches itself.
AtomMatches(ch, c) == IF ch = "." THEN c # "\n" ELSE ch = c

\* Whether the items from the k-th on match the text at position j.
RECURSIVE MatchHere(_, _, _, _)
MatchHere(items, k, s, j) ==
    IF k > Len(items) THEN TRUE
    ELSE IF items[k].star
         THEN \/ MatchHere(items, k + 1, s, j)
              \/ /\ j <= Len(s)
                 /\ AtomMatches(items[k].ch, s[j])
                 /\ MatchHere(items, k, s, j + 1)
         ELSE /\ j <= Len(s)
              /\ AtomMatches(items[k].ch, s[j])
              /\ MatchHere(items, k + 1, s, j + 1)

\* pattern.search(text) is not None
RegexSearch(pat, s) ==
    \E j \in 1..(Len(s) + 1) : MatchHere(RegexItems(pat), 1, s, j)

\* Whether the text holds the other one as a piece of it.
IsSubstring(sub, s) ==
    \E j \in 1..(Len(s) - Len(sub) + 1) : SubSeq(s, j, j + Len(sub) - 1) = sub

\* Series.str.contains(pat): regex=True is the default, so the pattern is
\* compiled and searched for in every cell.
StrContains(cell, pat) == RegexSearch(pat, cell)

\* The results of a query: rows, or a raised re.error.
Rows(rs) == [raised |-> FALSE, rows |-> rs]
RaisedReError == [raised |-> TRUE, rows |-> <<>>]

\* Lines 213-214.
get_tunes_by_type(d, tune_type) ==
    LET pat == LowerStr(tune_type)
        mask(row) == StrContains(LowerStr(Fillna(row.rhythm, <<>>)), pat)
    IN  IF RegexCompiles(pat) THEN Rows(SelectSeq(d, mask)) ELSE RaisedReError

\* Lines 219-220.
search_tunes(d, search_term) ==
    LET pat == LowerStr(search_term)
        mask(row) == StrContains(LowerStr(Fillna(row.title, <<>>)), pat)
    IN  IF RegexCompiles(pat) THEN Rows(SelectSeq(d, mask)) ELSE RaisedReError

\* The label fillna('Unknown') gives a missing composer.
Unknown == <<"U", "n", "k", "n", "o", "w", "n">>

\* Line 225.
ComposerColumn(d) == [i \in 1..Len(d) |-> Fillna(d[i].composer, Unknown)]

CountOf(comp, label) == Cardinality({i \in 1..Len(comp) : comp[i] = label})

\* A faulty variant: value_counts(ascending=True).
ValueCountsAscending(comp) ==
    LET labels == {comp[i] : i \in 1..Len(comp)}
        k == Cardinality(labels)
    IN  {[i \in 1..k |-> [composer |-> o[i], count |-> CountOf(comp, o[i])]] :
            o \in {q \in [1..k -> labels] :
                     /\ \A i, j \in 1..k : i # j => q[i] # q[j]
                     /\ \A i \in 1..(k - 1) :
                            CountOf(comp, q[i]) <= CountOf(comp, q[i + 1])}}
\* Series.value_counts(): one entry per value, by descending count.  The sort
\* is not a stable one (pandas before 3.0 says so), so values of equal count
\* come in any order.
ValueCounts(comp) ==
    LET labels == {comp[i] : i \in 1..Len(comp)}
        k == Cardinality(labels)
    IN  {[i \in 1..k |-> [composer |-> o[i], count |-> CountOf(comp, o[i])]] :
            o \in {q \in [1..k -> labels] :
                     /\ \A i, j \in 1..k : i # j => q[i] # q[j]
                     /\ \A i \in 1..(k - 1) :
                            CountOf(comp, q[i]) >= CountOf(comp, q[i + 1])}}

\* head(n) for n >= 0.
HeadN(sq, n) == SubSeq(sq, 1, IF n < Len(sq) THEN n ELSE Len(sq))

\* Lines 225-226: the results top_composers may give.
top_composers(d, n) == {Rows(HeadN(vc, n)) : vc \in ValueCounts(ComposerColumn(d))}

(***************************************************************************)
(* The components that a specification leaves alone.                       *)
(***************************************************************************)
QueryIdle == df = <<>> /\ term = <<>> /\ top_n = 0 /\ q_result = Rows(<<>>)
ImportIdle ==
    /\ corpus = {}
    /\ store = <<>>
    /\ txn = <<>>
    /\ NoLocals
    /\ returned = 0
    /\ prior = <<>>
    /\ failed_at = "nowhere"
    /\ now = 0
    /\ runs = 0
SegIdle == content = <<>> /\ blocks = <<>> /\ tunes = <<>>
ParseIdle == block = <<>> /\ fields = None
BookIdle == file_path = <<>> /\ base_dir = <<>> /\ book_result = BookNone

(***************************************************************************)
(* parse_abc_file, one file at a time.                                     *)
(***************************************************************************)
SegAlphabet == {"X", "x", ":", "\n", " "}

InitSeg ==
    /\ content \in SeqsUpTo(SegAlphabet, MaxContentLen)
    /\ blocks = <<>>
    /\ tunes = <<>>
    /\ ParseIdle
    /\ BookIdle
    /\ ImportIdle
    /\ QueryIdle
    /\ pc = "findall"

\* Line 103.
SegFindall ==
    /\ pc = "findall"
    /\ blocks' = TUNE_BLOCK_REGEX_findall(content)
    /\ pc' = "blocks"
    /\ UNCHANGED <<content, tunes, parseVars, bookVars, importVars, queryVars>>

\* Lines 105-107, one block per step.
SegParseBlock ==
    /\ pc = "blocks"
    /\ Len(tunes) < Len(blocks)
    /\ tunes' = Append(tunes, parse_tune_block(blocks[Len(tunes) + 1]))
    /\ UNCHANGED <<content, blocks, parseVars, bookVars, importVars, queryVars, pc>>

\* Line 108.
SegReturn ==
    /\ pc = "blocks"
    /\ Len(tunes) = Len(blocks)
    /\ pc' = "returned"
    /\ UNCHANGED <<segVars, parseVars, bookVars, importVars, queryVars>>

NextSeg == SegFindall \/ SegParseBlock \/ SegReturn

SpecSeg == InitSeg /\ [][NextSeg]_vars

(***************************************************************************)
(* parse_tune_block on an arbitrary block.                                 *)
(***************************************************************************)
ParseAlphabet == {"K", "k", "T", ":", "\n", " "}

InitParse ==
    /\ block \in SeqsUpTo(ParseAlphabet, MaxBlockLen)
    /\ fields = None
    /\ SegIdle
    /\ BookIdle
    /\ ImportIdle
    /\ QueryIdle
    /\ pc = "call"

ParseCall ==
    /\ pc = "call"
    /\ fields' = parse_tune_block(block)
    /\ pc' = "returned"
    /\ UNCHANGED <<segVars, block, bookVars, importVars, queryVars>>

NextParse == ParseCall

SpecParse == InitParse /\ [][NextParse]_vars

(***************************************************************************)
(* get_book_number_from_path on the paths of a small tree.                 *)
(***************************************************************************)
BookChars == {"1", "2", "sup2", "a"}

\* The names of files and directories: 1 to MaxNameLen characters.
Names == SeqsUpTo(BookChars, MaxNameLen) \ {<<>>}

\* The paths of 1 to MaxDepth names.
Paths == {Join(<<"/">>, segs) : segs \in SeqsUpTo(Names, MaxDepth) \ {<<>>}}

\* The corpus roots: the working directory, or a directory of it.
Roots == {<<".">>} \cup {<<c>> : c \in BookChars}

InitBook ==
    /\ file_path \in Paths
    /\ base_dir \in Roots
    /\ book_result = BookNone
    /\ SegIdle
    /\ ParseIdle
    /\ ImportIdle
    /\ QueryIdle
    /\ pc = "call"

BookCall ==
    /\ pc = "call"
    /\ book_result' = get_book_number_from_path(file_path, base_dir)
    /\ pc' = IF book_result'.tag = "ValueError" THEN "raised" ELSE "returned"
    /\ UNCHANGED <<file_path, base_dir, segVars, parseVars, importVars, queryVars>>

NextBook == BookCall

SpecBook == InitBook /\ [][NextBook]_vars

(***************************************************************************)
(* Import runs over a small corpus.                                        *)
(***************************************************************************)
\* The places of the files a corpus may hold.
Places ==
    {[dir |-> <<<<"1">>>>, name |-> <<"a", ".", "a", "b", "c">>],
     [dir |-> <<<<"1">>>>, name |-> <<"B", ".", "A", "B", "C">>],
     [dir |-> <<>>, name |-> <<"c", ".", "a", "b", "c">>],
     [dir |-> <<<<"2">>>>, name |-> <<"a", ".", "t", "x", "t">>],
     [dir |-> <<<<"sup2">>>>, name |-> <<"a", ".", "a", "b", "c">>]}

\* The texts an imported file may hold: no tune, one tune, or two tunes after
\* a preamble.
Texts ==
    {<<"a">>,
     <<"X", ":", "1">>,
     <<"a", "\n", "X", ":", "1", "\n", "T", ":", "a", "\n", "X", ":", "2", "\n">>}

\* A file that is not imported, or that ends the run, holds one tune.
TextsAt(p) ==
    IF IsAbcFile(p.name) /\ p.dir # <<<<"sup2">>>> THEN Texts ELSE {<<"X", ":", "1">>}

\* Every choice of a text, or of no file, for each place.
Corpora ==
    {{[dir |-> p.dir, name |-> p.name, text |-> ch[p]] : p \in {q \in Places : ch[q] # None}} :
        ch \in {c \in [Places -> Texts \cup {<<"X", ":", "1">>, None}] :
                   \A q \in Places : c[q] \in TextsAt(q) \cup {None}}}

\* A row an earlier process has stored.
LegacyRow ==
    NewRow(parse_tune_block(<<"X", ":", "2">>), BookInt(2),
           <<"b", "/", "2", "/", "a", ".", "a", "b", "c">>, 1, 0)

InitImport ==
    /\ corpus \in Corpora
    /\ store \in {<<>>, <<LegacyRow>>}
    /\ txn = <<>>
    /\ NoLocals
    /\ returned = 0
    /\ prior = <<>>
    /\ failed_at = "nowhere"
    /\ now = 1
    /\ runs = 0
    /\ SegIdle
    /\ ParseIdle
    /\ BookIdle
    /\ QueryIdle
    /\ pc = "menu"

NextImport ==
    \/ ImportBegin
    \/ ImportFindFiles
    \/ ImportNextFile
    \/ ImportResolveBook
    \/ ImportParseFile
    \/ ImportNextTune
    \/ InsertExecute
    \/ InsertCommit
    \/ InsertFails
    \/ ImportCount
    \/ ImportClose
    \/ ImportBackToMenu
    \/ Crash

SpecImport == InitImport /\ [][NextImport]_vars

(***************************************************************************)
(* The queries over small DataFrames.                                      *)
(***************************************************************************)
\* The cells the model draws: a title and a rhythm, one of them missing or
\* holding a ".", and a composer.
TitleAndRhythm ==
    {<<None, <<"a", "B">>>>, <<<<"a", "B">>, None>>, <<<<"a", ".">>, <<"B", "a">>>>}
ComposerCells == {None, <<"A">>, <<"B">>}

CellRows ==
    {[title |-> tr[1], rhythm |-> tr[2], composer |-> c] :
        tr \in TitleAndRhythm, c \in ComposerCells}

\* The rows with their ids, in store order.
WithIds(rs) ==
    [i \in 1..Len(rs) |->
        [id |-> i, title |-> rs[i].title, rhythm |-> rs[i].rhythm,
         composer |-> rs[i].composer]]

\* The composers A, B, A, none, C, B, A.
ExampleFrame ==
    LET cs == <<<<"A">>, <<"B">>, <<"A">>, None, <<"C">>, <<"B">>, <<"A">>>>
    IN  [i \in 1..7 |-> [id |-> i, title |-> <<"a", "B">>, rhythm |-> None,
                         composer |-> cs[i]]]

Frames == {WithIds(rs) : rs \in SeqsUpTo(CellRows, MaxRows)} \cup {ExampleFrame}

TermChars == {"a", "B", ".", "*", "("}
Terms == SeqsUpTo(TermChars, MaxTermLen)

InitQuery ==
    /\ df \in Frames
    /\ term = <<>>
    /\ top_n = 0
    /\ q_result = Rows(<<>>)
    /\ SegIdle
    /\ ParseIdle
    /\ BookIdle
    /\ ImportIdle
    /\ pc = "menu"

\* Menu choice 5.
QuerySearch ==
    /\ pc = "menu"
    /\ \E t \in Terms :
           /\ term' = t
           /\ q_result' = search_tunes(df, t)
    /\ pc' = "searched"
    /\ UNCHANGED <<df, top_n, segVars, parseVars, bookVars, importVars>>

\* Menu choice 4.
QueryByType ==
    /\ pc = "menu"
    /\ \E t \in Terms :
           /\ term' = t
           /\ q_result' = get_tunes_by_type(df, t)
    /\ pc' = "typed"
    /\ UNCHANGED <<df, top_n, segVars, parseVars, bookVars, importVars>>

\* Menu choice 6.
QueryTopComposers ==
    /\ pc = "menu"
    /\ \E n \in 0..MaxTop :
           /\ top_n' = n
           /\ q_result' \in top_composers(df, n)
    /\ pc' = "topped"
    /\ UNCHANGED <<df, term, segVars, parseVars, bookVars, importVars>>

NextQuery == QuerySearch \/ QueryByType \/ QueryTopComposers

SpecQuery == InitQuery /\ [][NextQuery]_vars

(***************************************************************************)
(* The claims about the Segmenter and the Field Extractor.                 *)
(***************************************************************************)
\* The lines of a text, split at "\n" only, empty lines kept: a text with n
\* newlines has n + 1 lines.
RECURSIVE LinesFrom(_, _, _)
LinesFrom(s, start, i) ==
    IF i > Len(s) THEN <<SubSeq(s, start, Len(s))>>
    ELSE IF s[i] = "\n"
         THEN <<SubSeq(s, start, i - 1)>> \o LinesFrom(s, i + 1, i + 1)
         ELSE LinesFrom(s, start, i + 1)

LinesOf(s) == LinesFrom(s, 1, 1)

BeginsWithXColon(line) == Len(line) >= 2 /\ line[1] = "X" /\ line[2] = ":"

\* The indices of the lines that begin with X: .
MarkerLines(L) == {i \in 1..Len(L) : BeginsWithXColon(L[i])}

\* The k-th smallest element of a finite set of numbers.
RECURSIVE Kth(_, _)
Kth(S, k) ==
    LET m == CHOOSE x \in S : \A y \in S : x <= y
    IN  IF k = 1 THEN m ELSE Kth(S \ {m}, k - 1)

\* The blocks the Segmenter is to yield: one per marker line, from that line
\* through the line before the next marker line, or through the last line.
ExpectedBlocks(s) ==
    LET L == LinesOf(s)
        M == MarkerLines(L)
        n == Cardinality(M)
        last(k) == IF k = n THEN Len(L) ELSE Kth(M, k + 1) - 1
    IN  [k \in 1..n |-> Join(<<"\n">>, SubSeq(L, Kth(M, k), last(k)))]

\* C1: the Segmenter yields, in file order, exactly one block per line that
\* begins with X: ; each block runs from its marker line up to, not including,
\* the newline before the next marker line, or to the end of the input; text
\* before the first marker is in no block.
C1_SegmenterBlocks ==
    pc # "findall" => blocks = ExpectedBlocks(content)

\* C1's case: a preamble line, then two marker lines.
C1_Witness ==
    /\ pc = "returned"
    /\ Len(blocks) = 2
    /\ ~BeginsWithXColon(LinesOf(content)[1])
    /\ blocks[1] # blocks[2]

\* C10: every record of the import path has an externalId, possibly empty.
C10_SegmentedHasExternalId ==
    \A i \in 1..Len(tunes) : tunes[i].x_number # None

\* C10's case: a file of two tunes, one with an empty identifier, one whose
\* block was trimmed before its first line was read.
C10_Witness ==
    /\ pc = "returned"
    /\ Len(tunes) = 2
    /\ tunes[1].x_number = <<>>
    /\ tunes[2].x_number # <<>>
    /\ tunes[2].tune_text # blocks[2]

\* A tagged field line: at least 2 characters, the second one a colon.
IsTagged(line) == Len(line) >= 2 /\ line[2] = ":"

\* The value of a tagged field line: the text after the colon, trimmed.
ValueOf(line) == Strip(SubSeq(line, 3, Len(line)))

\* The lines of the trimmed block whose first character upper-cases to tag.
TagLines(b, tag) ==
    LET L == Splitlines(Strip(b))
    IN  {i \in 1..Len(L) : IsTagged(L[i]) /\ Upper(L[i][1]) = tag}

\* The value of the last line carrying the tag, or None without such a line.
LastValue(b, tag) ==
    LET L == Splitlines(Strip(b))
        T == TagLines(b, tag)
    IN  IF T = {} THEN None
        ELSE ValueOf(L[CHOOSE i \in T : \A j \in T : j <= i])

\* C2: each scalar field holds the trimmed value of the last line of the
\* trimmed block carrying its tag (in either case), and is absent when there
\* is no such line.
C2_ScalarLastWins ==
    pc = "returned" =>
        /\ fields.x_number = LastValue(block, "X")
        /\ fields.composer = LastValue(block, "C")
        /\ fields.rhythm = LastValue(block, "R")
        /\ fields.meter = LastValue(block, "M")
        /\ fields.unit_length = LastValue(block, "L")
        /\ fields.key = LastValue(block, "K")

\* C2's case: the tag repeats, in both cases, with different values, and the
\* last one is kept.
C2_Witness ==
    /\ pc = "returned"
    /\ block = <<"K", ":", "T", "\n", "k", ":">>
    /\ fields.key = <<>>
    /\ fields.composer = None

\* The values of the T-tagged lines of the trimmed block, in line order.
TitleValues(b) ==
    LET L == Splitlines(Strip(b))
        isT(line) == IsTagged(line) /\ Upper(line[1]) = "T"
        S == SelectSeq(L, isT)
    IN  [i \in 1..Len(S) |-> ValueOf(S[i])]

\* C3: titles are the values of all T: lines in line order, title is their
\* join with " / ", and title is absent exactly when there are no titles.
C3_TitlesAppend ==
    pc = "returned" =>
        /\ fields.titles = TitleValues(block)
        /\ fields.titles # <<>> =>
               fields.title = Join(<<" ", "/", " ">>, TitleValues(block))
        /\ fields.title = None <=> fields.titles = <<>>

\* C3's case: two title lines with different values.
C3_Witness ==
    /\ pc = "returned"
    /\ Len(fields.titles) = 2
    /\ fields.titles[1] # fields.titles[2]
    /\ Len(fields.title) = 4

\* Whether the trimmed block has no tagged field line.
NoTaggedLine(b) ==
    LET L == Splitlines(Strip(b)) IN \A i \in 1..Len(L) : ~IsTagged(L[i])

AllStructuredAbsent(f) ==
    /\ f.x_number = None
    /\ f.composer = None
    /\ f.rhythm = None
    /\ f.meter = None
    /\ f.unit_length = None
    /\ f.key = None
    /\ f.title = None
    /\ f.titles = <<>>

\* C4 as stated: a block without tagged lines gives a record with every
\* structured field absent and a non-empty body equal to the trimmed block.
C4_AsStated ==
    (pc = "returned" /\ NoTaggedLine(block)) =>
        /\ AllStructuredAbsent(fields)
        /\ fields.tune_text # <<>>
        /\ fields.tune_text = Strip(block)

\* C4 as amended: every structured field is absent and the body is the
\* trimmed block, which is non-empty exactly when the block holds a character
\* that is not whitespace.
C4_UntaggedBlock ==
    (pc = "returned" /\ NoTaggedLine(block)) =>
        /\ AllStructuredAbsent(fields)
        /\ fields.tune_text = Strip(block)
        /\ fields.tune_text # <<>> <=> \E i \in 1..Len(block) : ~IsSpace(block[i])

\* C4's case: an untagged block of two lines with whitespace around it.
C4_Witness ==
    /\ pc = "returned"
    /\ NoTaggedLine(block)
    /\ Len(Splitlines(Strip(block))) = 2
    /\ fields.tune_text # <<>>
    /\ fields.tune_text # block

(***************************************************************************)
(* The claim about the Book Resolver.                                      *)
(***************************************************************************)
\* The segments of the file's path below the root, when the root is a
\* prefix of the path; the whole relative path otherwise.
RootRelative(fp, bd) == Split(relpath(fp, bd), "/")

AllDecimal(s) == s # <<>> /\ \A i \in 1..Len(s) : s[i] \in DecimalDigits

\* C5: the call raises nothing; it returns the integer value of the first
\* segment of the root-relative path when that path has at least two
\* segments and the first one is all decimal digits, and None otherwise.
C5_BookResolver ==
    pc # "call" =>
        LET parts == RootRelative(file_path, base_dir)
        IN  /\ pc = "returned"
            /\ book_result =
                   IF Len(parts) >= 2 /\ AllDecimal(parts[1])
                   THEN BookInt(DecimalValue(parts[1]))
                   ELSE BookNone

\* What holds of the code: C5 for every path whose first root-relative
\* segment holds no digit character other than a decimal digit.
C5_WithoutOtherDigits ==
    LET parts == RootRelative(file_path, base_dir)
    IN  (pc # "call" /\ (\A i \in 1..Len(parts[1]) : parts[1][i] # "sup2")) =>
            /\ pc = "returned"
            /\ book_result =
                   IF Len(parts) >= 2 /\ AllDecimal(parts[1])
                   THEN BookInt(DecimalValue(parts[1]))
                   ELSE BookNone

(***************************************************************************)
(* The claims about the Importer and the Store.                            *)
(***************************************************************************)
\* A file name with the extension .abc in any mix of cases.
HasAbcExtension(name) ==
    LET n == Len(name)
    IN  /\ n >= 4
        /\ name[n - 3] = "."
        /\ name[n - 2] \in {"a", "A"}
        /\ name[n - 1] \in {"b", "B"}
        /\ name[n] \in {"c", "C"}

\* The .abc files of a corpus in the order of their paths: the i-th one has
\* i - 1 files before it.
FilesInPathOrder(c) ==
    LET F == {f \in c : HasAbcExtension(f.name)}
    IN  [i \in 1..Cardinality(F) |->
            CHOOSE f \in F :
                Cardinality({g \in F : StrLess(PathOf(g), PathOf(f))}) = i - 1]

\* The book of a file: the number its first folder below the root spells.
ExpectedBook(f) ==
    IF f.dir # <<>> /\ AllDecimal(f.dir[1])
    THEN BookInt(DecimalValue(f.dir[1]))
    ELSE BookNone

\* What a row says of its tune and of where the tune comes from.
Core(row) ==
    [book |-> row.book, file_path |-> row.file_path, x_number |-> row.x_number,
     title |-> row.title, composer |-> row.composer, rhythm |-> row.rhythm,
     meter |-> row.meter, unit_length |-> row.unit_length, key |-> row.key,
     tune_text |-> row.tune_text]

\* The rows of one file: one per block, in the order of the blocks.
ExpectedFileRows(f) ==
    LET bs == ExpectedBlocks(f.text)
    IN  [k \in 1..Len(bs) |->
            LET t == parse_tune_block(bs[k])
            IN  [book |-> ExpectedBook(f), file_path |-> PathOf(f),
                 x_number |-> t.x_number, title |-> t.title,
                 composer |-> t.composer, rhythm |-> t.rhythm, meter |-> t.meter,
                 unit_length |-> t.unit_length, key |-> t.key,
                 tune_text |-> t.tune_text]]

RECURSIVE Flatten(_)
Flatten(ss) == IF ss = <<>> THEN <<>> ELSE ss[1] \o Flatten(Tail(ss))

\* The records of a whole run, in order.
ExpectedRun(c) ==
    LET F == FilesInPathOrder(c)
    IN  Flatten([i \in 1..Len(F) |-> ExpectedFileRows(F[i])])

\* The store holds what it held when the run began, then the first n
\* records of the run.
StoreIsPriorPlus(n) ==
    /\ Len(store) = Len(prior) + n
    /\ SubSeq(store, 1, Len(prior)) = prior
    /\ LET E == ExpectedRun(corpus)
       IN  /\ n <= Len(E)
           /\ [i \in 1..n |-> Core(store[Len(prior) + i])] = SubSeq(E, 1, n)

\* C6: a run that returns has left the prior rows as they were and appended
\* one row per block of every .abc file, files in path order, blocks in file
\* order, each with its file's path and book; it returns their number.
C6_ImportAppends ==
    pc = "returned" =>
        /\ StoreIsPriorPlus(returned)
        /\ returned = Len(ExpectedRun(corpus))

\* C6's case: the second run over a corpus of three .abc files (one with an
\* upper-case extension) and a text file has stored every tune twice.
C6_Witness ==
    /\ pc = "returned"
    /\ runs = 2
    /\ Cardinality(corpus) = 4
    /\ returned >= 4
    /\ prior[1] # LegacyRow
    /\ Len(prior) = returned
    /\ Len(store) = 2 * returned
    /\ \A i \in 1..returned : Core(store[i]) = Core(store[returned + i])
    /\ \E i \in 1..returned : store[i].book = BookNone
    /\ \E i \in 1..returned : \E j \in (i + 1)..returned :
           /\ store[i].book = BookInt(1)
           /\ store[i].file_path = <<"b", "/", "1", "/", "B", ".", "A", "B", "C">>
           /\ store[j].file_path = <<"b", "/", "1", "/", "a", ".", "a", "b", "c">>

\* C7: a run that fails has left in the store, after the prior rows, exactly
\* the records whose insert had finished, in order: the first total ones when
\* it fails while writing the next one.  Every record is committed before the
\* next insert begins, and at most one row is ever uncommitted.
C7_FailureKeepsCommitted ==
    /\ (pc = "failed" /\ failed_at \in {"execute", "commit"}) =>
           txn = <<>> /\ StoreIsPriorPlus(total)
    /\ (pc = "failed" /\ failed_at \notin {"execute", "commit"}) =>
           StoreIsPriorPlus(IF failed_at = "count" THEN total + 1 ELSE total)
    /\ pc = "execute" => txn = <<>> /\ StoreIsPriorPlus(total)
    /\ Len(txn) <= 1

\* C7's case: the second run fails at the commit of its third record.
C7_Witness ==
    /\ pc = "failed"
    /\ failed_at = "commit"
    /\ runs = 2
    /\ total = 2
    /\ Len(ExpectedRun(corpus)) = 4
    /\ Len(prior) = 5
    /\ Len(store) = Len(prior) + 2

(***************************************************************************)
(* The claims about the queries.                                           *)
(***************************************************************************)
\* The rows whose cell of a column, none read as the empty text, holds the
\* term as a piece of it, cases ignored.
LiteralMatches(d, column, t) ==
    LET hit(row) == IsSubstring(LowerStr(t), LowerStr(Fillna(row[column], <<>>)))
    IN  SelectSeq(d, hit)

\* C8: search and byCategory never fail and give, in store order, exactly
\* the rows whose title (or rhythm) holds the term as a literal piece, cases
\* ignored.
C8_LiteralSubstring ==
    /\ pc = "searched" => q_result = Rows(LiteralMatches(df, "title", term))
    /\ pc = "typed" => q_result = Rows(LiteralMatches(df, "rhythm", term))

\* What holds of the code: C8 for the terms without ".", "*" and "(".
C8_PlainTerms ==
    (\A i \in 1..Len(term) : term[i] \notin {".", "*", "("}) =>
        /\ pc = "searched" => q_result = Rows(LiteralMatches(df, "title", term))
        /\ pc = "typed" => q_result = Rows(LiteralMatches(df, "rhythm", term))

\* The composers of the rows, a missing one read as "Unknown".
ComposersOrUnknown(d) ==
    [i \in 1..Len(d) |-> IF d[i].composer = None THEN Unknown ELSE d[i].composer]

\* How many rows have the composer.
RowsOf(comp, label) == Cardinality({i \in 1..Len(comp) : comp[i] = label})

\* The index of the first row with the composer.
FirstSeen(comp, label) ==
    CHOOSE i \in 1..Len(comp) : comp[i] = label /\ \A j \in 1..(i - 1) : comp[j] # label

\* Whether a composer comes before another: by the higher count, and among
\* equal counts by the earlier first row.
Before(comp, a, b) ==
    \/ RowsOf(comp, a) > RowsOf(comp, b)
    \/ RowsOf(comp, a) = RowsOf(comp, b) /\ FirstSeen(comp, a) < FirstSeen(comp, b)

\* The composers with their counts in that order.
StableCounts(comp) ==
    LET labels == {comp[i] : i \in 1..Len(comp)}
    IN  [i \in 1..Cardinality(labels) |->
            LET l == CHOOSE a \in labels :
                         Cardinality({b \in labels : Before(comp, b, a)}) = i - 1
            IN  [composer |-> l, count |-> RowsOf(comp, l)]]

\* The first n entries, or all of them when there are fewer.
FirstN(sq, n) == [i \in 1..(IF n < Len(sq) THEN n ELSE Len(sq)) |-> sq[i]]

====
